---- MODULE Spec2Model ----
\* Business-profile endpoint of revvio: GET/POST /api/business/profile, the
\* createBusinessProfile / updateBusinessProfile server actions, the
\* onboardingSchema validation and the business_profiles table.
EXTENDS Integers, Sequences, FiniteSets, TLC

\* ---------------------------------------------------------------------------
\* Bounds
\* ---------------------------------------------------------------------------
MaxReq == 2
MaxSubmits == 2
MaxTime == 1
MaxUser == 2

\* ---------------------------------------------------------------------------
\* JavaScript values.  A string is a sequence of one-character strings; the
\* values undefined, null and a number are one-element sequences whose element
\* is not a character.
\* ---------------------------------------------------------------------------
Undefined == <<"UNDEFINED">>
Null == <<"NULL">>
NumberValue == <<"NUMBER">>

Digits == {"0", "1", "2", "3", "4", "5", "6", "7", "8", "9"}
Letters ==
    {"a", "b", "c", "d", "e", "f", "g", "h", "i", "j", "k", "l", "m", "n", "o", "p", "q", "r",
     "s", "t", "u", "v", "w", "x", "y", "z", "A", "B", "C", "D", "E", "F", "G", "H", "I", "J",
     "K", "L", "M", "N", "O", "P", "Q", "R", "S", "T", "U", "V", "W", "X", "Y", "Z"}
\* characters the class \s matches: a space, a tab, a line feed
Whitespace == {" ", "\t", "\n"}
Chars == Digits \cup Letters \cup Whitespace \cup {"+", "(", ")", "-", ".", "@", ":", "/", "_", "'"}

IsString(v) == \A i \in 1..Len(v) : v[i] \in Chars
Falsy(v) == v = Undefined \/ v = Null \/ v = <<>>
\* mutant: the value is stored as submitted
OrNullKeep(x) == x

\* x || null
OrNull(x) == IF Falsy(x) THEN Null ELSE x

\* ---------------------------------------------------------------------------
\* lib/validations/business.ts
\* ---------------------------------------------------------------------------
\* [-\s\.]
PhoneSeparators == {"-", "."} \cup Whitespace

\* index after an optional character of class cls at position p
SkipOptional(s, p, cls) == IF p <= Len(s) /\ s[p] \in cls THEN p + 1 ELSE p

\* TRUE iff s[p..p+n-1] are digits
DigitsAt(s, p, n) == p + n - 1 <= Len(s) /\ \A i \in p..(p + n - 1) : s[i] \in Digits

\* mutant: the pattern is not anchored at the end
phoneRegexUnanchored(s) ==
    LET p1 == SkipOptional(s, 1, {"+"})
        p2 == SkipOptional(s, p1, {"("})
        p3 == p2 + 3
        p4 == SkipOptional(s, p3, {")"})
        p5 == SkipOptional(s, p4, PhoneSeparators)
        p6 == p5 + 3
        p7 == SkipOptional(s, p6, PhoneSeparators)
    IN  /\ DigitsAt(s, p2, 3)
        /\ DigitsAt(s, p5, 3)
        /\ DigitsAt(s, p7, 4)

\* /^[\+]?[(]?[0-9]{3}[)]?[-\s\.]?[0-9]{3}[-\s\.]?[0-9]{4,6}$/
phoneRegex(s) ==
    LET p1 == SkipOptional(s, 1, {"+"})
        p2 == SkipOptional(s, p1, {"("})
        p3 == p2 + 3
        p4 == SkipOptional(s, p3, {")"})
        p5 == SkipOptional(s, p4, PhoneSeparators)
        p6 == p5 + 3
        p7 == SkipOptional(s, p6, PhoneSeparators)
        rest == Len(s) - p7 + 1
    IN  /\ DigitsAt(s, p2, 3)
        /\ DigitsAt(s, p5, 3)
        /\ rest >= 4
        /\ rest <= 6
        /\ DigitsAt(s, p7, rest)

AlphaNum == Digits \cup Letters
EmailLocalChars == AlphaNum \cup {"_", "'", "+", "-", "."}
EmailLocalLast == AlphaNum \cup {"_", "+", "-"}

\* positions of character c in s
Positions(s, c) == {i \in 1..Len(s) : s[i] = c}

\* a domain of the form (label ".")+ tld : labels start with a letter or digit
\* and continue with letters, digits or "-"; the tld is two or more letters
IsEmailDomain(d) ==
    LET dots == Positions(d, ".")
        lastDot == CHOOSE i \in dots : \A j \in dots : j <= i
        LabelStart(i) == i = 1 \/ (i - 1) \in dots
    IN  /\ dots # {}
        /\ Len(d) - lastDot >= 2
        /\ \A i \in (lastDot + 1)..Len(d) : d[i] \in Letters
        /\ \A i \in 1..lastDot :
              \/ d[i] = "." /\ ~LabelStart(i)
              \/ d[i] \in AlphaNum
              \/ d[i] = "-" /\ ~LabelStart(i)

\* z.string().email(): local part, "@", domain
IsEmail(s) ==
    LET ats == Positions(s, "@")
        at == CHOOSE i \in ats : TRUE
    IN  /\ Cardinality(ats) = 1
        /\ at >= 2
        /\ s[1] # "."
        /\ \A i \in 1..(Len(s) - 1) : ~(s[i] = "." /\ s[i + 1] = ".")
        /\ \A i \in 1..(at - 1) : s[i] \in EmailLocalChars
        /\ s[at - 1] \in EmailLocalLast
        /\ IsEmailDomain(SubSeq(s, at + 1, Len(s)))

SchemeChars == AlphaNum \cup {"+", "-", "."}
RECURSIVE StripSlashes(_)
StripSlashes(s) == IF s # <<>> /\ s[1] = "/" THEN StripSlashes(Tail(s)) ELSE s

IsSpecialScheme(sch) == sch \in {<<"h", "t", "t", "p">>, <<"h", "t", "t", "p", "s">>}

\* z.string().url(): new URL(s) does not throw: a scheme, ":", and for the
\* http(s) schemes a non-empty host
IsUrl(s) ==
    LET colons == Positions(s, ":")
        c == CHOOSE i \in colons : \A j \in colons : i <= j
    IN  /\ colons # {}
        /\ c >= 2
        /\ s[1] \in Letters
        /\ \A i \in 1..(c - 1) : s[i] \in SchemeChars
        /\ IsSpecialScheme(SubSeq(s, 1, c - 1)) =>
              LET host == StripSlashes(SubSeq(s, c + 1, Len(s)))
              IN  host # <<>> /\ host[1] \in AlphaNum

MaxNameLen == 255
MaxEmailLen == 255
MinNameLen == 2

Issue(path, message) == [path |-> path, message |-> message]

\* invalid_type issue of a string schema
TypeIssue(path, v) ==
    IF v = Undefined THEN <<Issue(path, "Required")>>
    ELSE IF v = Null THEN <<Issue(path, "Expected string, received null")>>
    ELSE <<Issue(path, "Expected string, received number")>>

\* mutant: the schema has no upper limit on the business name
businessNameIssuesNoMax(v) ==
    IF ~IsString(v) THEN TypeIssue("businessName", v)
    ELSE IF Len(v) < MinNameLen
         THEN <<Issue("businessName", "Business name must be at least 2 characters")>>
         ELSE <<>>

businessNameIssues(v) ==
    IF ~IsString(v) THEN TypeIssue("businessName", v)
    ELSE (IF Len(v) < MinNameLen
          THEN <<Issue("businessName", "Business name must be at least 2 characters")>>
          ELSE <<>>)
      \o (IF Len(v) > MaxNameLen
          THEN <<Issue("businessName", "Business name must be less than 255 characters")>>
          ELSE <<>>)

phoneIssues(v) ==
    IF ~IsString(v) THEN TypeIssue("phone", v)
    ELSE (IF Len(v) < 1 THEN <<Issue("phone", "Phone number is required")>> ELSE <<>>)
      \o (IF ~phoneRegex(v)
          THEN <<Issue("phone", "Please enter a valid phone number")>>
          ELSE <<>>)

\* mutant: the format check of the email is missing
emailIssuesNoFormat(v) ==
    IF ~IsString(v) THEN TypeIssue("email", v)
    ELSE (IF Len(v) < 1 THEN <<Issue("email", "Email is required")>> ELSE <<>>)
      \o (IF Len(v) > MaxEmailLen
          THEN <<Issue("email", "Email must be less than 255 characters")>>
          ELSE <<>>)

emailIssues(v) ==
    IF ~IsString(v) THEN TypeIssue("email", v)
    ELSE (IF Len(v) < 1 THEN <<Issue("email", "Email is required")>> ELSE <<>>)
      \o (IF ~IsEmail(v)
          THEN <<Issue("email", "Please enter a valid email address")>>
          ELSE <<>>)
      \o (IF Len(v) > MaxEmailLen
          THEN <<Issue("email", "Email must be less than 255 characters")>>
          ELSE <<>>)

\* mutant: the Google link is optional like the other two links
googleReviewUrlIssuesOptional(v) ==
    IF v = Undefined \/ v = <<>> THEN <<>>
    ELSE IF ~IsString(v) THEN <<Issue("googleReviewUrl", "Invalid input")>>
    ELSE IF ~IsUrl(v) THEN <<Issue("googleReviewUrl", "Please enter a valid URL")>>
    ELSE <<>>

googleReviewUrlIssues(v) ==
    IF ~IsString(v) THEN TypeIssue("googleReviewUrl", v)
    ELSE (IF Len(v) < 1
          THEN <<Issue("googleReviewUrl", "Google Review link is required")>>
          ELSE <<>>)
      \o (IF ~IsUrl(v)
          THEN <<Issue("googleReviewUrl", "Please enter a valid URL")>>
          ELSE <<>>)

\* z.string().url(...).optional().or(z.literal(''))
optionalUrlIssues(path, v) ==
    IF v = Undefined \/ v = <<>> THEN <<>>
    ELSE IF ~IsString(v) THEN <<Issue(path, "Invalid input")>>
    ELSE IF ~IsUrl(v) THEN <<Issue(path, "Please enter a valid URL")>>
    ELSE <<>>

FieldNames ==
    {"businessName", "phone", "email", "googleReviewUrl", "facebookReviewUrl", "yelpReviewUrl"}

\* onboardingSchema.safeParse(body).error.errors for a parsed body: the JSON
\* value null, or a JSON object whose absent keys are Undefined
onboardingSchemaIssues(body) ==
    IF body.kind = "null" THEN <<Issue("", "Expected object, received null")>>
    ELSE businessNameIssues(body.fields.businessName)
      \o phoneIssues(body.fields.phone)
      \o emailIssues(body.fields.email)
      \o googleReviewUrlIssues(body.fields.googleReviewUrl)
      \o optionalUrlIssues("facebookReviewUrl", body.fields.facebookReviewUrl)
      \o optionalUrlIssues("yelpReviewUrl", body.fields.yelpReviewUrl)

\* ---------------------------------------------------------------------------
\* Request inputs
\* ---------------------------------------------------------------------------
NoUser == 0
Users == 1..MaxUser
Reqs == 1..MaxReq
Times == 0..MaxTime

Str2 == <<"A", "c">>
StrName2 == <<"B", "o", "b">>
StrPhone == <<"5", "5", "5", "1", "2", "3", "4", "5", "6", "7">>
StrPhone2 == <<"(", "5", "5", "5", ")", " ", "1", "2", "3", "-", "4", "5", "6", "7">>
StrEmail == <<"a", "@", "b", ".", "c", "o">>
StrNotAnEmail == <<"n", "o", "t", "-", "a", "n", "-", "e", "m", "a", "i", "l">>
StrUrlG == <<"h", "t", "t", "p", ":", "/", "/", "g", ".", "c", "o">>
StrUrlF == <<"h", "t", "t", "p", "s", ":", "/", "/", "f", "b", ".", "c", "o">>
StrUrlY == <<"h", "t", "t", "p", ":", "/", "/", "y", ".", "c", "o">>
StrNotUrl == <<"f", "b">>

Object(n, p, e, g, f, y) ==
    [businessName |-> n, phone |-> p, email |-> e, googleReviewUrl |-> g,
     facebookReviewUrl |-> f, yelpReviewUrl |-> y]

\* a request body: kind "malformed" when request.json() throws, "null" for
\* the JSON value null, "object" for a JSON object with the given fields
Body(kind, fields) == [kind |-> kind, fields |-> fields]
NoFields == Object(Undefined, Undefined, Undefined, Undefined, Undefined, Undefined)
Malformed == Body("malformed", NoFields)
JsonNull == Body("null", NoFields)

ValidBodies ==
    {Body("object", Object(Str2, StrPhone, StrEmail, StrUrlG, StrUrlF, StrUrlY)),
     Body("object", Object(StrName2, StrPhone2, StrEmail, StrUrlG, <<>>, Undefined))}

InvalidBodies ==
    {Body("object", Object(<<"A">>, <<>>, StrNotAnEmail, <<>>, StrNotUrl, NumberValue)),
     JsonNull}

Bodies == ValidBodies \cup InvalidBodies \cup {Malformed}

\* ---------------------------------------------------------------------------
\* The business_profiles table (lib/db/schema.ts, migration 0001)
\* ---------------------------------------------------------------------------
Columns ==
    {"id", "userId", "businessName", "googleReviewUrl", "facebookReviewUrl", "yelpReviewUrl",
     "phone", "email", "createdAt", "updatedAt"}

MutableFields ==
    {"businessName", "phone", "email", "googleReviewUrl", "facebookReviewUrl", "yelpReviewUrl"}

\* varchar('business_name', { length: 255 }), varchar('phone', { length: 20 }),
\* varchar('email', { length: 255 }); the three URL columns are text
BusinessNameColumnLength == 255
PhoneColumnLength == 20
EmailColumnLength == 255

\* whether the table declares a UNIQUE constraint on user_id: it declares a
\* primary key on id and a foreign key on user_id, nothing else
UniqueUserId == FALSE

\* db.insert(businessProfiles).values(v).returning(): the statement writes the
\* table's columns; a key of v that is not a column is not written
InsertedRow(v, id, t) ==
    [c \in Columns |->
        IF c \in DOMAIN v THEN v[c]
        ELSE IF c = "id" THEN id
        ELSE IF c \in {"createdAt", "updatedAt"} THEN t
        ELSE Null]

\* mutant: a null in v leaves the column as it was (merge instead of replace)
UpdatedRowMerge(row, v) ==
    [c \in Columns |->
        IF c \in DOMAIN v /\ ~(c \in {"facebookReviewUrl", "yelpReviewUrl"} /\ v[c] = Null)
        THEN v[c]
        ELSE row[c]]

\* mutant: the update also resets the creation timestamp
UpdatedRowNewCreatedAt(row, v) ==
    [c \in Columns |->
        IF c \in DOMAIN v THEN v[c]
        ELSE IF c = "createdAt" THEN v.updatedAt
        ELSE row[c]]

\* db.update(businessProfiles).set(v): one row after the update
UpdatedRow(row, v) == [c \in Columns |-> IF c \in DOMAIN v THEN v[c] ELSE row[c]]

\* .where(eq(businessProfiles.userId, u))
RowsOf(table, u) == {row \in table : row.userId = u}

\* mutant: the where clause is missing
SelectLimit1AnyUser(table, u) ==
    IF table = {} THEN {<<>>} ELSE {<<row>> : row \in table}

\* mutant: the select never finds a row
SelectLimit1None(table, u) == {<<>>}

\* .select()...limit(1): the possible results, each a sequence of 0 or 1 rows
SelectLimit1(table, u) ==
    IF RowsOf(table, u) = {} THEN {<<>>} ELSE {<<row>> : row \in RowsOf(table, u)}

\* ---------------------------------------------------------------------------
\* Values thrown by the store; a message is a sequence of words
\* ---------------------------------------------------------------------------
Thrown(isError, message) == [isError |-> isError, message |-> message]
MsgUnique == <<"duplicate", "key", "value", "violates", "unique", "constraint">>
MsgForeignKey == <<"violates", "foreign", "key", "constraint">>
MsgBoth == <<"foreign", "key", "and", "unique", "constraint">>
MsgOther == <<"connection", "terminated">>
ThrownValues ==
    {Thrown(TRUE, MsgUnique), Thrown(TRUE, MsgForeignKey), Thrown(TRUE, MsgBoth),
     Thrown(TRUE, MsgOther), Thrown(FALSE, MsgUnique)}

\* message.includes(pattern)
Includes(message, pattern) ==
    \E i \in 1..(Len(message) - Len(pattern) + 1) :
        SubSeq(message, i, i + Len(pattern) - 1) = pattern

\* ---------------------------------------------------------------------------
\* Responses
\* ---------------------------------------------------------------------------
Response(status, success, error, message, details, data, keys) ==
    [status |-> status, success |-> success, error |-> error, message |-> message,
     details |-> details, data |-> data, keys |-> keys]

NoResponse == Response(0, FALSE, "", "", <<>>, <<>>, {})

\* mutant: a failure built like the validation failure, with a details list
FailureWithDetails(status, error) ==
    Response(status, FALSE, error, "", <<>>, <<>>, {"success", "error", "details"})

Failure(status, error) == Response(status, FALSE, error, "", <<>>, <<>>, {"success", "error"})

\* mutant: only the first issue is reported
errorMessagesFirst(issues) ==
    IF issues = <<>> THEN <<>>
    ELSE <<Head(issues).path \o ": " \o Head(issues).message>>

RECURSIVE errorMessages(_)
\* validation.error.errors.map((err) => `${err.path.join('.')}: ${err.message}`)
errorMessages(issues) ==
    IF issues = <<>> THEN <<>>
    ELSE <<Head(issues).path \o ": " \o Head(issues).message>> \o errorMessages(Tail(issues))

\* mutant: the foreign-key test comes first
PostCatchForeignKeyFirst(e) ==
    IF e.isError /\ Includes(e.message, <<"foreign", "key">>)
    THEN Failure(400, "Invalid user reference")
    ELSE IF e.isError /\ Includes(e.message, <<"unique", "constraint">>)
    THEN Failure(409, "A business profile already exists for this user")
    ELSE Failure(500, "Internal server error while processing your request")

\* the catch block of POST
PostCatch(e) ==
    IF e.isError /\ Includes(e.message, <<"unique", "constraint">>)
    THEN Failure(409, "A business profile already exists for this user")
    ELSE IF e.isError /\ Includes(e.message, <<"foreign", "key">>)
    THEN Failure(400, "Invalid user reference")
    ELSE Failure(500, "Internal server error while processing your request")

\* the object POST writes
profileData(u, d, t) ==
    [userId |-> u,
     businessName |-> d.businessName,
     phone |-> d.phone,
     email |-> d.email,
     googleReviewUrl |-> d.googleReviewUrl,
     facebookReviewUrl |-> OrNull(d.facebookReviewUrl),
     yelpReviewUrl |-> OrNull(d.yelpReviewUrl),
     onboardingCompleted |-> TRUE,
     updatedAt |-> t]

\* the object createBusinessProfile inserts
newBusinessProfile(u, d) ==
    [userId |-> u,
     businessName |-> d.businessName,
     phone |-> d.phone,
     email |-> d.email,
     googleReviewUrl |-> d.googleReviewUrl,
     facebookReviewUrl |-> OrNull(d.facebookReviewUrl),
     yelpReviewUrl |-> OrNull(d.yelpReviewUrl),
     onboardingCompleted |-> TRUE]

\* the object updateBusinessProfile sets
updateSet(d, t) ==
    [businessName |-> d.businessName,
     phone |-> d.phone,
     email |-> d.email,
     googleReviewUrl |-> d.googleReviewUrl,
     facebookReviewUrl |-> OrNull(d.facebookReviewUrl),
     yelpReviewUrl |-> OrNull(d.yelpReviewUrl),
     onboardingCompleted |-> TRUE,
     updatedAt |-> t]

\* ---------------------------------------------------------------------------
\* State
\* ---------------------------------------------------------------------------
VARIABLES
    rows,       \* the business_profiles table
    nextId,     \* the serial behind business_profiles.id
    now,        \* the latest value read from the clock by new Date() or now()
    req,        \* the calls in progress: handler, caller, body, position, locals
    last,       \* the call that returns in this step, with its response
    hist,       \* history: submissions so far, the last change of the table, its users
    page        \* the client page in the browser: its React state and its requests

vars == <<rows, nextId, now, req, last, hist, page>>

\* the call that changed the table last; alone = no other call changed the
\* table between its existence check and its write
NoWrite == [op |-> "none", user |-> NoUser, body |-> Malformed, alone |-> FALSE]

\* a call.  touched counts its store statements, validated tells whether
\* safeParse ran, clean whether the table is as its existence check saw it,
\* thrown holds the value its store statement threw, before and prev are the
\* table and the last change as they were when its final statement ran
IdleReq ==
    [op |-> "none", user |-> NoUser, body |-> Malformed, pc |-> "idle", isUpdate |-> FALSE,
     stamp |-> 0, resp |-> NoResponse, touched |-> 0, validated |-> FALSE, clean |-> FALSE,
     thrown |-> <<>>, before |-> {}, prev |-> NoWrite]

\* a page: the React state (currentStep, isSubmitting, isLoading, profile,
\* hasUnsavedChanges), the form values with the default values and the dirty
\* flag react-hook-form keeps for them, the state the committed render shows
\* and its handlers closed over (shown), the router's target, the armed timers, the fetch calls that
\* have not reached the server (wire), the item 'onboarding-form-data' of the
\* local storage (draft: empty when absent), and for the step just taken the
\* user event handled and the toast raised
BlankForm == Object(<<>>, <<>>, <<>>, <<>>, <<>>, <<>>)
View(step, submitting, loading) ==
    [currentStep |-> step, isSubmitting |-> submitting, isLoading |-> loading,
     profile |-> <<>>, hasUnsavedChanges |-> FALSE]
NoPage ==
    [kind |-> "none", user |-> NoUser, currentStep |-> 0, isSubmitting |-> FALSE,
     isLoading |-> FALSE, profile |-> <<>>, hasUnsavedChanges |-> FALSE,
     form |-> BlankForm, defaults |-> BlankForm, isDirty |-> FALSE,
     shown |-> View(0, FALSE, FALSE), route |-> "here", redirectTimer |-> FALSE,
     resetTimer |-> FALSE, wire |-> <<>>, draft |-> <<>>, event |-> "none",
     toast |-> "none"]

Init ==
    /\ rows = {}
    /\ nextId = 1
    /\ now = 0
    /\ req = [r \in Reqs |-> IdleReq]
    /\ last = IdleReq
    /\ hist = [submits |-> 0, lastWrite |-> NoWrite, submitted |-> {}]
    /\ page = NoPage

\* a call arrives and takes the first free slot
CanBegin(r) ==
    /\ req[r].pc = "idle"
    /\ \A q \in 1..(r - 1) : req[q].pc # "idle"

\* a submission (POST or server action) arrives
CanSubmit(r) == CanBegin(r) /\ hist.submits < MaxSubmits

Arrived == [hist EXCEPT !.submits = @ + 1]

Started(o, u, b, pc) == [IdleReq EXCEPT !.op = o, !.user = u, !.body = b, !.pc = pc]

\* no call returns in this step
Quiet == last' = IdleReq

\* the call returns response
Finish(q, response) == [q EXCEPT !.pc = "done", !.resp = response]

\* one store statement issued by the call
Touch(q) == [q EXCEPT !.touched = @ + 1]
\* the final store statement of the call
AtStore(q) == [Touch(q) EXCEPT !.before = rows, !.prev = hist.lastWrite]
\* the final store statement of the call threw e
Threw(q, e) == [AtStore(q) EXCEPT !.thrown = <<e>>]

\* call r changed the table
Wrote(r) ==
    [hist EXCEPT !.lastWrite = [op |-> req[r].op, user |-> req[r].user, body |-> req[r].body,
                                alone |-> req[r].clean],
                 !.submitted = @ \cup {req[r].user}]

\* call r leaves its slot
Leave(r) == req' = [req EXCEPT ![r] = IdleReq]
\* call r leaves its slot after it changed the table
LeaveWrite(r) == req' = [q \in Reqs |-> IF q = r THEN IdleReq ELSE [req[q] EXCEPT !.clean = FALSE]]

\* the values a read of the clock may return: the clock never runs backwards
ClockReads == {t \in Times : t >= now}

\* mutant: the session check is skipped
NotSignedInNever(u) == FALSE

\* if (!user)
NotSignedIn(u) == u = NoUser

\* mutant: the parse error is not caught separately
JsonThrowsNever(b) == FALSE

\* request.json() throws
JsonThrows(b) == b.kind = "malformed"

\* ---------------------------------------------------------------------------
\* GET /api/business/profile
\* ---------------------------------------------------------------------------
GET_Begin(r, u) ==
    /\ CanBegin(r)
    /\ IF NotSignedIn(u)
       THEN /\ last' = Finish(Started("GET", u, Malformed, "idle"),
                              Failure(401, "Unauthorized. Please sign in."))
            /\ UNCHANGED req
       ELSE /\ req' = [req EXCEPT ![r] = Started("GET", u, Malformed, "select")]
            /\ Quiet
    /\ UNCHANGED <<rows, nextId, now, hist>>

GET_Select(r) ==
    /\ req[r].op = "GET" /\ req[r].pc = "select"
    /\ \E profiles \in SelectLimit1(rows, req[r].user) :
          last' = Finish(AtStore(req[r]),
                         IF Len(profiles) = 0
                         THEN Failure(404, "Business profile not found")
                         ELSE Response(200, TRUE, "", "", <<>>, profiles, {"success", "data"}))
    /\ Leave(r)
    /\ UNCHANGED <<rows, nextId, now, hist>>

\* the select throws e
GET_StoreError(r, e) ==
    /\ req[r].op = "GET" /\ req[r].pc = "select"
    /\ last' = Finish(Threw(req[r], e), Failure(500, "Internal server error"))
    /\ Leave(r)
    /\ UNCHANGED <<rows, nextId, now, hist>>

\* ---------------------------------------------------------------------------
\* POST /api/business/profile
\* ---------------------------------------------------------------------------
\* authentication, request.json() and safeParse: no store access
POST_Begin(r, u, b) ==
    /\ CanSubmit(r)
    /\ IF NotSignedIn(u)
       THEN /\ last' = Finish(Started("POST", u, b, "idle"),
                              Failure(401, "Unauthorized. Please sign in."))
            /\ UNCHANGED req
       ELSE IF JsonThrows(b)
       THEN /\ last' = Finish(Started("POST", u, b, "idle"),
                              Failure(400, "Invalid JSON in request body"))
            /\ UNCHANGED req
       ELSE IF onboardingSchemaIssues(b) # <<>>
       THEN /\ last' = Finish([Started("POST", u, b, "idle") EXCEPT !.validated = TRUE],
                              Response(400, FALSE, "Validation failed", "",
                                       errorMessages(onboardingSchemaIssues(b)), <<>>,
                                       {"success", "error", "details"}))
            /\ UNCHANGED req
       ELSE /\ req' = [req EXCEPT ![r] =
                  [Started("POST", u, b, "select") EXCEPT !.validated = TRUE]]
            /\ Quiet
    /\ hist' = Arrived
    /\ UNCHANGED <<rows, nextId, now>>

\* the existence check, then profileData with updatedAt: new Date()
POST_Select(r) ==
    /\ req[r].op = "POST" /\ req[r].pc = "select"
    /\ \E existingProfiles \in SelectLimit1(rows, req[r].user), t \in ClockReads :
          /\ req' = [req EXCEPT ![r] =
                [Touch(@) EXCEPT !.pc = "write", !.isUpdate = Len(existingProfiles) > 0,
                                 !.stamp = t, !.clean = TRUE]]
          /\ now' = t
    /\ Quiet
    /\ UNCHANGED <<rows, nextId, hist>>

POST_Update(r) ==
    /\ req[r].op = "POST" /\ req[r].pc = "write" /\ req[r].isUpdate
    /\ LET u == req[r].user
           set == profileData(u, req[r].body.fields, req[r].stamp)
           updated == {UpdatedRow(row, set) : row \in RowsOf(rows, u)}
       IN  /\ rows' = (rows \ RowsOf(rows, u)) \cup updated
           /\ \E result \in (IF updated = {} THEN {<<>>} ELSE {<<row>> : row \in updated}) :
                 last' = Finish(AtStore(req[r]),
                     Response(200, TRUE, "", "Business profile updated successfully",
                              <<>>, result, {"success", "data", "message"}))
    /\ LeaveWrite(r)
    /\ hist' = Wrote(r)
    /\ UNCHANGED <<nextId, now>>

POST_Insert(r) ==
    /\ req[r].op = "POST" /\ req[r].pc = "write" /\ ~req[r].isUpdate
    /\ \E t \in ClockReads :
        LET u == req[r].user
            created == InsertedRow(profileData(u, req[r].body.fields, req[r].stamp), nextId, t)
        IN  IF UniqueUserId /\ RowsOf(rows, u) # {}
            THEN /\ last' = Finish(Threw(req[r], Thrown(TRUE, MsgUnique)),
                                   PostCatch(Thrown(TRUE, MsgUnique)))
                 /\ Leave(r)
                 /\ UNCHANGED <<rows, nextId, now, hist>>
            ELSE /\ rows' = rows \cup {created}
                 /\ nextId' = nextId + 1
                 /\ now' = t
                 /\ last' = Finish(AtStore(req[r]),
                       Response(201, TRUE, "", "Business profile created successfully",
                                <<>>, <<created>>, {"success", "data", "message"}))
                 /\ LeaveWrite(r)
                 /\ hist' = Wrote(r)

\* the statement the call is waiting for throws e
POST_StoreError(r, e) ==
    /\ req[r].op = "POST" /\ req[r].pc \in {"select", "write"}
    /\ last' = Finish(Threw(req[r], e), PostCatch(e))
    /\ Leave(r)
    /\ UNCHANGED <<rows, nextId, now, hist>>

\* ---------------------------------------------------------------------------
\* Server actions (onboarding/actions.ts)
\* ---------------------------------------------------------------------------
ActionSuccess(message, row) ==
    Response(0, TRUE, "", message, <<>>, <<row>>, {"success", "profileId"})
ActionError(error) == Response(0, FALSE, error, "", <<>>, <<>>, {"error"})

\* validatedActionWithUser hands the action a signed-in user and parsed data
create_Begin(r, u, b) ==
    /\ CanSubmit(r)
    /\ u \in Users /\ b.kind = "object" /\ onboardingSchemaIssues(b) = <<>>
    /\ req' = [req EXCEPT ![r] =
          [Started("create", u, b, "write") EXCEPT !.validated = TRUE, !.clean = TRUE]]
    /\ Quiet
    /\ hist' = Arrived
    /\ UNCHANGED <<rows, nextId, now>>

createBusinessProfile(r) ==
    /\ req[r].op = "create" /\ req[r].pc = "write"
    /\ \E t \in ClockReads :
        LET u == req[r].user
            createdProfile == InsertedRow(newBusinessProfile(u, req[r].body.fields), nextId, t)
        IN  IF UniqueUserId /\ RowsOf(rows, u) # {}
            THEN /\ last' = Finish(Threw(req[r], Thrown(TRUE, MsgUnique)),
                       ActionError("An error occurred while creating your business profile."))
                 /\ Leave(r)
                 /\ UNCHANGED <<rows, nextId, now, hist>>
            ELSE /\ rows' = rows \cup {createdProfile}
                 /\ nextId' = nextId + 1
                 /\ now' = t
                 /\ last' = Finish(AtStore(req[r]),
                       ActionSuccess("Business profile created successfully!", createdProfile))
                 /\ LeaveWrite(r)
                 /\ hist' = Wrote(r)

\* the insert throws e
create_StoreError(r, e) ==
    /\ req[r].op = "create" /\ req[r].pc = "write"
    /\ last' = Finish(Threw(req[r], e),
                      ActionError("An error occurred while creating your business profile."))
    /\ Leave(r)
    /\ UNCHANGED <<rows, nextId, now, hist>>

update_Begin(r, u, b) ==
    /\ CanSubmit(r)
    /\ u \in Users /\ b \in ValidBodies
    /\ req' = [req EXCEPT ![r] = [Started("update", u, b, "select") EXCEPT !.validated = TRUE]]
    /\ Quiet
    /\ hist' = Arrived
    /\ UNCHANGED <<rows, nextId, now>>

\* getBusinessProfile(): the signed-in user's profile row, or null
getBusinessProfile(u) == SelectLimit1(rows, u)

\* the existence check, then the set object with updatedAt: new Date()
update_Select(r) ==
    /\ req[r].op = "update" /\ req[r].pc = "select"
    /\ \E existingProfile \in getBusinessProfile(req[r].user), t \in ClockReads :
          IF Len(existingProfile) = 0
          THEN /\ last' = Finish(AtStore(req[r]), ActionError("Business profile not found."))
               /\ Leave(r)
               /\ UNCHANGED now
          ELSE /\ req' = [req EXCEPT ![r] =
                     [Touch(@) EXCEPT !.pc = "write", !.isUpdate = TRUE, !.stamp = t,
                                     !.clean = TRUE]]
               /\ now' = t
               /\ Quiet
    /\ UNCHANGED <<rows, nextId, hist>>

updateBusinessProfile(r) ==
    /\ req[r].op = "update" /\ req[r].pc = "write"
    /\ LET u == req[r].user
           set == updateSet(req[r].body.fields, req[r].stamp)
           updated == {UpdatedRow(row, set) : row \in RowsOf(rows, u)}
       IN  /\ rows' = (rows \ RowsOf(rows, u)) \cup updated
           /\ IF updated = {}
              THEN /\ last' = Finish(AtStore(req[r]),
                         ActionError("Failed to update business profile. Please try again."))
                   /\ Leave(r)
                   /\ hist' = hist
              ELSE /\ \E updatedProfile \in updated :
                         last' = Finish(AtStore(req[r]),
                             ActionSuccess("Business profile updated successfully!",
                                           updatedProfile))
                   /\ LeaveWrite(r)
                   /\ hist' = Wrote(r)
    /\ UNCHANGED <<nextId, now>>

\* the statement the call is waiting for throws e
update_StoreError(r, e) ==
    /\ req[r].op = "update" /\ req[r].pc \in {"select", "write"}
    /\ last' = Finish(Threw(req[r], e),
                      ActionError("An error occurred while updating your business profile."))
    /\ Leave(r)
    /\ UNCHANGED <<rows, nextId, now, hist>>

\* ---------------------------------------------------------------------------
\* Specification
\* ---------------------------------------------------------------------------
Next ==
    \/ \E r \in Reqs, u \in Users \cup {NoUser} : GET_Begin(r, u) /\ UNCHANGED page
    \/ \E r \in Reqs : GET_Select(r) /\ UNCHANGED page
    \/ \E r \in Reqs, e \in ThrownValues : GET_StoreError(r, e) /\ UNCHANGED page
    \/ \E r \in Reqs, u \in Users \cup {NoUser}, b \in Bodies : POST_Begin(r, u, b) /\ UNCHANGED page
    \/ \E r \in Reqs : POST_Select(r) /\ UNCHANGED page
    \/ \E r \in Reqs : POST_Update(r) /\ UNCHANGED page
    \/ \E r \in Reqs : POST_Insert(r) /\ UNCHANGED page
    \/ \E r \in Reqs, e \in ThrownValues : POST_StoreError(r, e) /\ UNCHANGED page
    \/ \E r \in Reqs, u \in Users, b \in ValidBodies : create_Begin(r, u, b) /\ UNCHANGED page
    \/ \E r \in Reqs : createBusinessProfile(r) /\ UNCHANGED page
    \/ \E r \in Reqs, e \in ThrownValues : create_StoreError(r, e) /\ UNCHANGED page
    \/ \E r \in Reqs, u \in Users, b \in ValidBodies : update_Begin(r, u, b) /\ UNCHANGED page
    \/ \E r \in Reqs : update_Select(r) /\ UNCHANGED page
    \/ \E r \in Reqs : updateBusinessProfile(r) /\ UNCHANGED page
    \/ \E r \in Reqs, e \in ThrownValues : update_StoreError(r, e) /\ UNCHANGED page

Spec == Init /\ [][Next]_vars

TypeOK ==
    /\ \A row \in rows : DOMAIN row = Columns /\ row.userId \in Users /\ row.id \in 1..MaxSubmits
    /\ nextId \in 1..(MaxSubmits + 1)
    /\ now \in Times
    /\ \A r \in Reqs : req[r].pc \in {"idle", "select", "write"}
    /\ last.pc \in {"idle", "done"}

\* ---------------------------------------------------------------------------
\* Sequential submissions: signed-in callers whose POST requests run one
\* after the other, each completing before the next starts, with payloads
\* whose fields vary independently
\* ---------------------------------------------------------------------------
SeqBodies ==
    {Body("object", Object(n, p, e, g, StrUrlF, Undefined)) :
        n \in {Str2, <<"A">>}, p \in {StrPhone, <<>>},
        e \in {StrEmail, StrNotAnEmail}, g \in {StrUrlG, <<>>}}
    \cup
    {Body("object", Object(Str2, StrPhone, e, g, f, y)) :
        e \in {StrEmail, StrNotAnEmail}, g \in {StrUrlG, <<>>},
        f \in {StrUrlF, <<>>, Undefined, StrNotUrl}, y \in {StrUrlY, <<>>, Undefined}}

\* the one call in progress
SeqReq == 1

NextSeq ==
    \/ \E u \in Users, b \in SeqBodies : POST_Begin(SeqReq, u, b) /\ UNCHANGED page
    \/ POST_Select(SeqReq) /\ UNCHANGED page
    \/ POST_Update(SeqReq) /\ UNCHANGED page
    \/ POST_Insert(SeqReq) /\ UNCHANGED page
    \/ \E e \in ThrownValues : POST_StoreError(SeqReq, e) /\ UNCHANGED page

SpecSeq == Init /\ [][NextSeq]_vars


\* ---------------------------------------------------------------------------
\* Validation: one POST of a signed-in user whose payload is drawn from phone
\* values built from the parts of the pattern and from near misses of each
\* part, and from names and emails at and around the length limits
\* ---------------------------------------------------------------------------
Repeat(c, n) == [i \in 1..n |-> c]

ValPhones ==
    LET Leads == {<<>>, <<"+">>, <<"+", "+">>}
        Opens == {<<>>, <<"(">>}
        Areas == {<<"5", "5", "5">>, <<"5", "a", "5">>}
        Closes == {<<>>, <<")">>}
        FirstSeparators == {<<>>, <<"-">>, <<" ">>, <<".">>, <<"\t">>, <<"/">>, <<"-", "-">>}
        Middles == {<<"1", "2", "3">>, <<"1", "2">>}
        SecondSeparators == {<<>>, <<".">>, <<"\n">>}
        Tails == {Repeat("4", n) : n \in {3, 4, 6, 7}}
        Trails == {<<>>, <<"x">>}
    IN  {<<>>} \cup
        {a \o b \o c \o d \o e \o f \o g \o h \o i :
            a \in Leads, b \in Opens, c \in Areas, d \in Closes,
            e \in FirstSeparators, f \in Middles, g \in SecondSeparators,
            h \in Tails, i \in Trails}

\* the longest value the pattern matches, and values that are longer
StrPhoneLongest == <<"+", "(">> \o Repeat("5", 3) \o <<")", " ">> \o Repeat("1", 3) \o <<"-">>
                   \o Repeat("4", 6)
LengthPhones == {StrPhone, StrPhoneLongest, StrPhoneLongest \o <<"4">>, Repeat("5", 21)}
LengthNames == {Repeat("n", n) : n \in {1, 2, MaxNameLen, MaxNameLen + 1}}
LengthEmails ==
    {Repeat("e", n - 5) \o <<"@", "b", ".", "c", "o">> : n \in {6, MaxEmailLen, MaxEmailLen + 1}}

ValBodies ==
    {Body("object", Object(Str2, p, StrEmail, StrUrlG, <<>>, Undefined)) : p \in ValPhones}
    \cup
    {Body("object", Object(n, p, e, StrUrlG, StrUrlF, <<>>)) :
        n \in LengthNames, p \in LengthPhones, e \in LengthEmails}

NextVal ==
    \/ \E u \in Users, b \in ValBodies :
          hist.submits = 0 /\ POST_Begin(SeqReq, u, b) /\ UNCHANGED page
    \/ POST_Select(SeqReq) /\ UNCHANGED page
    \/ POST_Insert(SeqReq) /\ UNCHANGED page

SpecVal == Init /\ [][NextVal]_vars


\* ---------------------------------------------------------------------------
\* Client pages: the onboarding wizard and the business settings page.  A
\* handler reads the state of the render that created it (shown); a state
\* update made inside a user event is rendered with the event, one made after
\* an await is rendered by a later step
\* ---------------------------------------------------------------------------
BasicInfos ==
    {<<<<>>, <<>>, <<>>>>, <<Str2, StrPhone, StrEmail>>, <<Str2, StrPhone, StrNotAnEmail>>}
ReviewLinks ==
    {<<<<>>, <<>>, <<>>>>, <<StrUrlG, StrUrlF, <<>>>>}
Forms == {Object(a[1], a[2], a[3], l[1], l[2], l[3]) : a \in BasicInfos, l \in ReviewLinks}
\* the drafts an earlier visit has left in the local storage
SavedDrafts == {Object(Str2, StrPhone, StrEmail, <<>>, <<>>, <<>>)}

BasicInfoOf(f) == <<f.businessName, f.phone, f.email>>
ReviewLinksOf(f) == <<f.googleReviewUrl, f.facebookReviewUrl, f.yelpReviewUrl>>

\* trigger(['businessName', 'phone', 'email'])
BasicInfoValid(f) ==
    /\ businessNameIssues(f.businessName) = <<>>
    /\ phoneIssues(f.phone) = <<>>
    /\ emailIssues(f.email) = <<>>

\* the resolver of handleSubmit
FormValid(f) == onboardingSchemaIssues(Body("object", f)) = <<>>

Fetch(op, body) == [op |-> op, body |-> body]

WizardPage(u) ==
    [NoPage EXCEPT !.kind = "wizard", !.user = u, !.currentStep = 1,
                   !.shown = View(1, FALSE, FALSE)]

\* the wizard of onboarding/page.tsx, which submits through the server action
ActionWizardPage(u) == [WizardPage(u) EXCEPT !.kind = "actionWizard"]

IsWizard(p) == p.kind \in {"wizard", "actionWizard"}

\* the settings page after its first render: the mount effect has called
\* fetchProfile
SettingsPage(u) ==
    [NoPage EXCEPT !.kind = "settings", !.user = u, !.isLoading = TRUE,
                   !.shown = View(0, FALSE, TRUE),
                   !.wire = <<Fetch("GET", Malformed)>>]

\* the wizard after its mount effects with a draft saved by an earlier visit:
\* the load effect has set each field to the saved value
WizardPageRestored(u, saved) == [WizardPage(u) EXCEPT !.draft = <<saved>>, !.form = saved]

\* a profile row that exists before the page is opened
SeedRow(u) ==
    InsertedRow(profileData(u, Object(StrName2, StrPhone2, StrEmail, StrUrlG, <<>>, <<>>), 0),
                1, 0)

InitUI ==
    /\ \E u \in Users \cup {NoUser} :
          page \in {WizardPage(u), SettingsPage(u)}
                   \cup {WizardPageRestored(u, saved) : saved \in SavedDrafts}
                   \cup {ActionWizardPage(v) : v \in {u} \cap Users}
    /\ \E seeded \in SUBSET Users :
          /\ Cardinality(seeded) <= 1
          /\ rows = {SeedRow(u) : u \in seeded}
          /\ nextId = 1 + Cardinality(seeded)
          /\ hist = [submits |-> 0, lastWrite |-> NoWrite, submitted |-> seeded]
    /\ now = 0
    /\ req = [r \in Reqs |-> IdleReq]
    /\ last = IdleReq

Mounted == page.kind \in {"wizard", "actionWizard", "settings"}
StateOf(p) ==
    [View(p.currentStep, p.isSubmitting, p.isLoading) EXCEPT
        !.profile = p.profile, !.hasUnsavedChanges = p.hasUnsavedChanges]
\* the wizard's auto-save effect.  Its dependency formValues is the result of
\* watch(), a new object in every render, so the effect runs after every
\* commit; the values have keys once the fields of step 1 are registered
autoSave(p) == IF p.kind = "wizard" THEN [p EXCEPT !.draft = <<p.form>>] ELSE p
\* the pending updates are rendered and the effects of the render run
Rendered(p) == autoSave([p EXCEPT !.shown = StateOf(p)])
\* the page at the start of a step
Base(p) == [p EXCEPT !.event = "none", !.toast = "none"]
Handling(p, event) == [Base(p) EXCEPT !.event = event]

ServerIdle == Quiet /\ UNCHANGED <<rows, nextId, now, req, hist>>

\* the submissions on the wire; a server action is called by a POST request too
PostsOn(wire) == Cardinality({i \in 1..Len(wire) : wire[i].op \in {"POST", "create"}})
\* the model lets the page send while the submissions are within the bound
CanSend == hist.submits + PostsOn(page.wire) < MaxSubmits

Without(wire, i) == SubSeq(wire, 1, i - 1) \o SubSeq(wire, i + 1, Len(wire))

\* React commits the pending state updates
Render ==
    /\ Mounted /\ page.shown # StateOf(page)
    /\ page' = Rendered(Base(page))
    /\ ServerIdle

\* value || ''
OrEmpty(v) == IF Falsy(v) THEN <<>> ELSE v

\* formState.isDirty becomes d; the settings page's effect on [isDirty] copies
\* it into hasUnsavedChanges
dirty(p, d) ==
    IF p.kind = "settings" THEN [p EXCEPT !.isDirty = d, !.hasUnsavedChanges = d] ELSE p

\* reset(values): the values become the form's values and its default values
reset(p, values) == dirty([p EXCEPT !.form = values, !.defaults = values], FALSE)

\* the values the inputs of the settings form show for a profile row
FormOf(row) ==
    Object(row.businessName, row.phone, row.email, OrEmpty(row.googleReviewUrl),
           OrEmpty(row.facebookReviewUrl), OrEmpty(row.yelpReviewUrl))

\* an input event: the value is compared with the default values and the
\* render of the event shows the buttons accordingly
edited(p, f) ==
    LET q == dirty([p EXCEPT !.form = f], f # p.defaults)
    IN  autoSave([q EXCEPT !.shown.hasUnsavedChanges = q.hasUnsavedChanges])

\* the user types into the inputs that are shown and enabled
Edit(f) ==
    /\ Mounted /\ ~page.shown.isSubmitting /\ ~page.shown.isLoading
    /\ f # page.form
    /\ IsWizard(page) =>
          \/ page.shown.currentStep = 1 /\ ReviewLinksOf(f) = ReviewLinksOf(page.form)
          \/ page.shown.currentStep = 2 /\ BasicInfoOf(f) = BasicInfoOf(page.form)
    /\ page' = edited(Handling(page, "edit"), f)
    /\ ServerIdle

\* the Next button of step 1
handleNext ==
    /\ IsWizard(page) /\ page.shown.currentStep = 1 /\ ~page.shown.isSubmitting
    /\ LET currentStep == page.shown.currentStep
           isValid == BasicInfoValid(page.form)
       IN  page' = IF isValid /\ currentStep < 3
                   THEN [Handling(page, "next") EXCEPT !.currentStep = currentStep + 1]
                   ELSE Handling(page, "next")
    /\ ServerIdle

\* the Back button of step 2
handleBack ==
    /\ IsWizard(page) /\ page.shown.currentStep = 2 /\ ~page.shown.isSubmitting
    /\ LET currentStep == page.shown.currentStep
       IN  page' = IF currentStep > 1
                   THEN Rendered([Handling(page, "back") EXCEPT !.currentStep = currentStep - 1])
                   ELSE Rendered(Handling(page, "back"))
    /\ ServerIdle

\* the Skip button of step 2; the wizard of part_004 also empties the links
handleSkipStep2 ==
    /\ IsWizard(page) /\ page.shown.currentStep = 2 /\ ~page.shown.isSubmitting
    /\ page' = IF page.kind = "wizard"
               THEN Rendered([Handling(page, "skip") EXCEPT
                                 !.form.googleReviewUrl = <<>>,
                                 !.form.facebookReviewUrl = <<>>,
                                 !.form.yelpReviewUrl = <<>>,
                                 !.currentStep = 3])
               ELSE Rendered([Handling(page, "skip") EXCEPT !.currentStep = 3])
    /\ ServerIdle

\* handleSubmit(onSubmit) up to the fetch call: the resolver, the isSubmitting
\* guard of the handler's render, setIsSubmitting(true), fetch
SubmitStarted(p) ==
    IF ~FormValid(p.form) \/ p.shown.isSubmitting
    THEN Handling(p, "submit")
    ELSE [Handling(p, "submit") EXCEPT !.isSubmitting = TRUE,
                                        !.wire = Append(@, Fetch("POST", Body("object", p.form)))]

\* a submit event on the wizard's form: step 2 shows its submit button
onSubmit ==
    /\ page.kind = "wizard" /\ page.shown.currentStep = 2
    /\ CanSend
    /\ page' = SubmitStarted(page)
    /\ ServerIdle

\* a submit event on the form of onboarding/page.tsx, whose submit button is
\* enabled: the resolver, setIsSubmitting(true), createBusinessProfile
action_onSubmit ==
    /\ page.kind = "actionWizard" /\ page.shown.currentStep = 2 /\ ~page.shown.isSubmitting
    /\ CanSend
    /\ page' = IF ~FormValid(page.form)
               THEN Handling(page, "submit")
               ELSE [Handling(page, "submit") EXCEPT
                        !.isSubmitting = TRUE,
                        !.wire = Append(@, Fetch("create", Body("object", page.form)))]
    /\ ServerIdle

\* a submit event on the settings form: its submit button is enabled
settings_onSubmit ==
    /\ page.kind = "settings" /\ ~page.shown.isLoading /\ page.shown.hasUnsavedChanges
    /\ CanSend
    /\ page' = SubmitStarted(page)
    /\ ServerIdle

\* the buttons of step 3
handleFinish ==
    /\ IsWizard(page) /\ page.shown.currentStep = 3
    /\ page' = Rendered([Handling(page, "finish") EXCEPT !.route = "/dashboard"])
    /\ ServerIdle

\* the Cancel button of the settings form, when it is enabled
handleCancel ==
    /\ page.kind = "settings" /\ ~page.shown.isLoading
    /\ ~page.shown.isSubmitting /\ page.shown.hasUnsavedChanges
    /\ LET profile == page.shown.profile
       IN  page' = IF profile = <<>>
                   THEN Handling(page, "cancel")
                   ELSE Rendered([reset(Handling(page, "cancel"), FormOf(profile[1]))
                                     EXCEPT !.toast = "Changes Discarded"])
    /\ ServerIdle

\* setTimeout(() => router.push('/dashboard'), 2000)
redirectTimer ==
    /\ Mounted /\ page.redirectTimer
    /\ page' = [Base(page) EXCEPT !.redirectTimer = FALSE, !.route = "/dashboard"]
    /\ ServerIdle

\* watch() as the mount effect of the settings page closed over it
formValuesAtMount == BlankForm

\* setTimeout(() => reset(formValues), 0)
resetTimer ==
    /\ Mounted /\ page.resetTimer
    /\ page' = reset([Base(page) EXCEPT !.resetTimer = FALSE], formValuesAtMount)
    /\ ServerIdle

\* the router replaces the page
Navigate ==
    /\ Mounted /\ page.route # "here"
    /\ page' = [Base(page) EXCEPT !.kind = "gone", !.redirectTimer = FALSE,
                                  !.resetTimer = FALSE]
    /\ ServerIdle

\* mutant: the catch block sends the request again
onSubmitFailedRetry(p, toast, body) ==
    [p EXCEPT !.isSubmitting = FALSE, !.toast = toast,
              !.wire = Append(@, Fetch("POST", body))]

\* mutant: the failure paths leave isSubmitting set
onSubmitFailedStuck(p, toast, body) == [p EXCEPT !.toast = toast]

\* onSubmit after a failure: a toast and setIsSubmitting(false)
onSubmitFailed(p, toast, body) == [p EXCEPT !.isSubmitting = FALSE, !.toast = toast]

\* onSubmit after await response.json()
onSubmitDone(p, call) ==
    LET result == call.resp
    IN  IF ~result.success
        THEN onSubmitFailed(p, IF "details" \in result.keys THEN "Validation Error" ELSE "Error",
                            call.body)
        ELSE IF result.status \notin 200..299
        THEN onSubmitFailed(p, "Error", call.body)
        ELSE IF p.kind = "wizard"
        THEN [p EXCEPT !.toast = "Success!", !.draft = <<>>, !.currentStep = 3,
                       !.isSubmitting = FALSE, !.redirectTimer = TRUE]
        ELSE reset([p EXCEPT !.toast = "Success!", !.profile = result.data,
                             !.isSubmitting = FALSE],
                   call.body.fields)

\* mutant: the 404 branch returns before the loading state is ended
fetchProfileDoneNoFinally(p, call) ==
    LET result == call.resp
    IN  IF ~result.success
        THEN IF result.status = 404
             THEN [p EXCEPT !.toast = "No Business Profile", !.route = "/onboarding"]
             ELSE [p EXCEPT !.toast = "Error", !.isLoading = FALSE]
        ELSE [p EXCEPT !.profile = result.data, !.isLoading = FALSE]

\* fetchProfile after await response.json(), with its finally block
fetchProfileDone(p, call) ==
    LET result == call.resp
    IN  IF ~result.success
        THEN IF result.status = 404
             THEN [p EXCEPT !.toast = "No Business Profile", !.route = "/onboarding",
                            !.isLoading = FALSE]
             ELSE [p EXCEPT !.toast = "Error", !.isLoading = FALSE]
        ELSE LET data == result.data[1]
             IN  [p EXCEPT !.profile = result.data,
                           !.form = Object(data.businessName, data.phone, data.email,
                                           OrEmpty(data.googleReviewUrl),
                                           OrEmpty(data.facebookReviewUrl),
                                           OrEmpty(data.yelpReviewUrl)),
                           !.resetTimer = TRUE,
                           !.isLoading = FALSE]

\* onSubmit of onboarding/page.tsx after await createBusinessProfile
actionDone(p, call) ==
    LET result == call.resp
    IN  IF "error" \in result.keys
        THEN [p EXCEPT !.toast = "Error", !.isSubmitting = FALSE]
        ELSE [p EXCEPT !.currentStep = 3, !.isSubmitting = FALSE]

\* the page receives the response of a call; a page that is gone ignores it
Deliver(p, call) ==
    IF p.kind \notin {"wizard", "actionWizard", "settings"} THEN p
    ELSE IF call.op = "create" THEN actionDone(p, call)
    ELSE IF call.op = "POST" THEN onSubmitDone(p, call)
    ELSE fetchProfileDone(p, call)

\* the page after a step of the server: the call that returned, if any, is
\* delivered
AfterServer(p) == page' = IF last'.pc = "done" THEN Deliver(Base(p), last') ELSE Base(p)

\* a POST of the page reaches the server
fetch_POST(r, i) ==
    /\ i \in 1..Len(page.wire) /\ page.wire[i].op = "POST"
    /\ POST_Begin(r, page.user, page.wire[i].body)
    /\ AfterServer([page EXCEPT !.wire = Without(@, i)])

\* a call of the server action reaches the server
call_create(r, i) ==
    /\ i \in 1..Len(page.wire) /\ page.wire[i].op = "create"
    /\ create_Begin(r, page.user, page.wire[i].body)
    /\ AfterServer([page EXCEPT !.wire = Without(@, i)])

\* the GET of the page reaches the server
fetch_GET(r, i) ==
    /\ i \in 1..Len(page.wire) /\ page.wire[i].op = "GET"
    /\ GET_Begin(r, page.user)
    /\ AfterServer([page EXCEPT !.wire = Without(@, i)])

\* fetch rejects: the request does not reach the server
fetch_NetworkError(i) ==
    /\ i \in 1..Len(page.wire)
    /\ LET p == [Base(page) EXCEPT !.wire = Without(@, i)]
       IN  page' = IF ~Mounted THEN p
                   ELSE IF page.wire[i].op = "POST"
                   THEN onSubmitFailed(p, "Network Error", page.wire[i].body)
                   ELSE IF page.wire[i].op = "create"
                   THEN [p EXCEPT !.toast = "Error", !.isSubmitting = FALSE]
                   ELSE [p EXCEPT !.toast = "Network Error", !.isLoading = FALSE]
    /\ ServerIdle

\* thrown values the page can tell apart: a 409 and a 500
PageThrownValues == {Thrown(TRUE, MsgUnique), Thrown(TRUE, MsgOther)}

NextUI ==
    \/ Render
    \/ \E f \in Forms : Edit(f)
    \/ handleNext
    \/ handleBack
    \/ handleSkipStep2
    \/ onSubmit
    \/ action_onSubmit
    \/ settings_onSubmit
    \/ handleFinish
    \/ handleCancel
    \/ redirectTimer
    \/ resetTimer
    \/ Navigate
    \/ \E r \in Reqs, i \in 1..MaxSubmits : fetch_POST(r, i)
    \/ \E r \in Reqs, i \in 1..MaxSubmits : call_create(r, i)
    \/ \E r \in Reqs, i \in 1..(MaxSubmits + 1) : fetch_GET(r, i)
    \/ \E i \in 1..(MaxSubmits + 1) : fetch_NetworkError(i)
    \/ \E r \in Reqs : createBusinessProfile(r) /\ AfterServer(page)
    \/ \E r \in Reqs, e \in PageThrownValues : create_StoreError(r, e) /\ AfterServer(page)
    \/ \E r \in Reqs : GET_Select(r) /\ AfterServer(page)
    \/ \E r \in Reqs, e \in PageThrownValues : GET_StoreError(r, e) /\ AfterServer(page)
    \/ \E r \in Reqs : POST_Select(r) /\ AfterServer(page)
    \/ \E r \in Reqs : POST_Update(r) /\ AfterServer(page)
    \/ \E r \in Reqs : POST_Insert(r) /\ AfterServer(page)
    \/ \E r \in Reqs, e \in PageThrownValues : POST_StoreError(r, e) /\ AfterServer(page)

SpecUI == InitUI /\ [][NextUI]_vars

\* a request that was sent reaches the server, and the server runs the
\* statements of the calls it has accepted
Network ==
    \/ \E r \in Reqs, i \in 1..MaxSubmits : fetch_POST(r, i)
    \/ \E r \in Reqs, i \in 1..MaxSubmits : call_create(r, i)
    \/ \E r \in Reqs : createBusinessProfile(r) /\ AfterServer(page)
    \/ \E r \in Reqs, i \in 1..(MaxSubmits + 1) : fetch_GET(r, i)
    \/ \E r \in Reqs : GET_Select(r) /\ AfterServer(page)
    \/ \E r \in Reqs : POST_Select(r) /\ AfterServer(page)
    \/ \E r \in Reqs : POST_Update(r) /\ AfterServer(page)
    \/ \E r \in Reqs : POST_Insert(r) /\ AfterServer(page)

\* the values typed in the runs that are checked for progress: the three
\* fields of step 1, then the links of step 2
LiveForms ==
    {Object(Str2, StrPhone, StrEmail, <<>>, <<>>, <<>>),
     Object(Str2, StrPhone, StrEmail, StrUrlG, StrUrlF, <<>>)}

NextUILive ==
    \/ Render
    \/ \E f \in LiveForms : Edit(f)
    \/ handleNext
    \/ handleBack
    \/ handleSkipStep2
    \/ onSubmit
    \/ action_onSubmit
    \/ settings_onSubmit
    \/ handleFinish
    \/ handleCancel
    \/ redirectTimer
    \/ resetTimer
    \/ Navigate
    \/ \E i \in 1..(MaxSubmits + 1) : fetch_NetworkError(i)
    \/ \E r \in Reqs, e \in PageThrownValues : create_StoreError(r, e) /\ AfterServer(page)
    \/ \E r \in Reqs, e \in PageThrownValues : GET_StoreError(r, e) /\ AfterServer(page)
    \/ \E r \in Reqs, e \in PageThrownValues : POST_StoreError(r, e) /\ AfterServer(page)
    \/ Network

\* the page and the server when every request is eventually answered
SpecUILive == InitUI /\ [][NextUILive]_vars /\ WF_vars(Network)

\* ---------------------------------------------------------------------------
\* Properties
\* ---------------------------------------------------------------------------
Returned(o) == last.pc = "done" /\ last.op = o
HasThrown == last.thrown # <<>>
ValidBody(b) == b.kind = "object" /\ onboardingSchemaIssues(b) = <<>>
HasProfile(u) == RowsOf(rows, u) # {}

\* the value a row holds for a submitted field: the optional URLs are unset
\* (null) when the field is absent or empty
StoredValue(f, fields) ==
    IF f \in {"facebookReviewUrl", "yelpReviewUrl"} /\ fields[f] \in {Undefined, <<>>}
    THEN Null
    ELSE fields[f]

CarriesSubmission(row, fields) == \A f \in MutableFields : row[f] = StoredValue(f, fields)

\* a row without its updated timestamp
ExceptUpdatedAt(row) == [c \in Columns \ {"updatedAt"} |-> row[c]]

\* C1: in every reachable state each user owns at most one business-profile
\* row, whatever POST, createBusinessProfile and updateBusinessProfile calls ran.
C1_AtMostOneProfilePerUser == \A u \in Users : Cardinality(RowsOf(rows, u)) <= 1

\* C2: a POST whose existence check found no row, and whose insert runs after
\* another POST of the same user has inserted, is answered 409, and the user
\* never has two rows.
C2_LostRaceIsConflict ==
    (/\ Returned("POST") /\ last.touched = 2 /\ ~last.isUpdate
     /\ RowsOf(last.before, last.user) # {}
     /\ last.prev.op = "POST" /\ last.prev.user = last.user)
    => /\ last.resp.status = 409
       /\ Cardinality(RowsOf(rows, last.user)) <= 1

\* C3: a valid POST by a signed-in user without a profile row returns 201,
\* success = true, a 'created' message and the new row, which carries the
\* submitted values, the caller's user id and onboardingCompleted = true.
C3_FirstSubmissionCreates ==
    (/\ Returned("POST") /\ last.user \in Users /\ ValidBody(last.body)
     /\ last.touched = 2 /\ ~last.isUpdate /\ ~HasThrown)
    => /\ last.resp.status = 201
       /\ last.resp.success
       /\ last.resp.message = "Business profile created successfully"
       /\ Len(last.resp.data) = 1
       /\ LET data == last.resp.data[1]
          IN  /\ data \in rows /\ data \notin last.before
              /\ data.userId = last.user
              /\ CarriesSubmission(data, last.body.fields)
              /\ "onboardingCompleted" \in DOMAIN data
              /\ data.onboardingCompleted = TRUE

\* C4: a valid POST by a user who has a profile row returns 200 with an
\* 'updated' message, and afterwards every mutable field of the user's stored
\* row equals the submission; an optional URL omitted or empty in it is unset.
C4_UpdateReplacesAllFields ==
    (/\ Returned("POST") /\ last.user \in Users /\ ValidBody(last.body)
     /\ last.touched = 2 /\ last.isUpdate /\ ~HasThrown)
    => /\ last.resp.status = 200
       /\ last.resp.message = "Business profile updated successfully"
       /\ HasProfile(last.user)
       /\ \A row \in RowsOf(rows, last.user) : CarriesSubmission(row, last.body.fields)
       /\ Len(last.resp.data) = 1
       /\ last.resp.data[1] \in RowsOf(rows, last.user)

\* a facebookReviewUrl that was set is unset by an update that leaves it empty
C4_Witness ==
    /\ Returned("POST") /\ last.isUpdate /\ last.resp.status = 200
    /\ last.body.fields.facebookReviewUrl = <<>>
    /\ last.body.fields.yelpReviewUrl = Undefined
    /\ \E old \in RowsOf(last.before, last.user) :
          old.facebookReviewUrl = StrUrlF /\ old.yelpReviewUrl = StrUrlY
    /\ \A row \in RowsOf(rows, last.user) :
          row.facebookReviewUrl = Null /\ row.yelpReviewUrl = Null

\* C5: a GET or POST without a signed-in user returns 401 with success =
\* false, whatever the body is, and issues no statement on the store.
C5_UnauthenticatedIs401 ==
    ((Returned("GET") \/ Returned("POST")) /\ last.user = NoUser)
    => /\ last.resp.status = 401
       /\ ~last.resp.success
       /\ last.touched = 0
       /\ ~last.validated

C5_Witness ==
    /\ Returned("POST") /\ last.user = NoUser /\ last.body.kind = "malformed"
    /\ last.resp.status = 401 /\ last.touched = 0

\* C6: a signed-in POST whose body fails validation returns 400 'Validation
\* failed' with one '<field>: <message>' entry per issue, before any store
\* statement.
C6_ValidationFailureIs400 ==
    (/\ Returned("POST") /\ last.user \in Users /\ last.body.kind # "malformed"
     /\ ~ValidBody(last.body))
    => LET issues == onboardingSchemaIssues(last.body)
       IN  /\ last.resp.status = 400
           /\ ~last.resp.success
           /\ last.resp.error = "Validation failed"
           /\ "details" \in last.resp.keys
           /\ Len(last.resp.details) = Len(issues)
           /\ \A i \in 1..Len(issues) :
                 last.resp.details[i] = issues[i].path \o ": " \o issues[i].message
           /\ last.touched = 0

\* several issues, two of them on one field
C6_Witness ==
    /\ Returned("POST") /\ last.user \in Users /\ last.resp.status = 400
    /\ Len(last.resp.details) = 8
    /\ last.resp.details[2] = "phone: Phone number is required"
    /\ last.resp.details[3] = "phone: Please enter a valid phone number"
    /\ last.resp.details[7] = "facebookReviewUrl: Please enter a valid URL"
    /\ last.touched = 0

\* C7: for a signed-in user GET returns 404 'Business profile not found' while
\* the user has made no successful submission and 200 with a row of the user
\* afterwards; no step deletes a user's profile, so a 200 is never followed by
\* a 404.
C7_GetFollowsSubmission ==
    /\ [](Returned("GET") /\ last.user \in Users /\ ~HasThrown =>
            IF last.user \in hist.submitted
            THEN /\ last.resp.status = 200 /\ last.resp.success
                 /\ Len(last.resp.data) = 1
                 /\ last.resp.data[1] \in RowsOf(rows, last.user)
            ELSE /\ last.resp.status = 404
                 /\ last.resp.error = "Business profile not found")
    /\ [][\A u \in Users :
            /\ u \in hist.submitted => u \in hist'.submitted
            /\ HasProfile(u) => HasProfile(u)']_vars

C7_Witness ==
    /\ Returned("GET") /\ last.resp.status = 200
    /\ last.user \in hist.submitted
    /\ last.resp.data[1].businessName = StrName2

\* C8: a POST that repeats, right after it and with the same payload, the
\* previous POST of the same user leaves the number of rows and every row's
\* content as they were, except for the updated timestamp.
C8_RepeatedSubmissionIsIdempotent ==
    (/\ Returned("POST") /\ last.touched = 2 /\ ~HasThrown /\ last.clean
     /\ last.prev = [op |-> "POST", user |-> last.user, body |-> last.body, alone |-> TRUE])
    => /\ last.resp.status = 200
       /\ Cardinality(rows) = Cardinality(last.before)
       /\ {ExceptUpdatedAt(row) : row \in rows} = {ExceptUpdatedAt(row) : row \in last.before}

\* the second submission only moved the updated timestamp
C8_Witness ==
    /\ Returned("POST") /\ last.touched = 2 /\ ~HasThrown /\ last.clean
    /\ last.prev = [op |-> "POST", user |-> last.user, body |-> last.body, alone |-> TRUE]
    /\ rows # last.before

\* C9: a signed-in POST whose store statement throws returns 409 when the
\* error message contains 'unique constraint', 400 when it contains 'foreign
\* key' and not 'unique constraint', 500 otherwise; success = false and the
\* table is unchanged.
C9_StoreErrorsAreClassified ==
    (Returned("POST") /\ HasThrown)
    => LET e == last.thrown[1]
           unique == e.isError /\ Includes(e.message, <<"unique", "constraint">>)
           foreign == e.isError /\ Includes(e.message, <<"foreign", "key">>)
       IN  /\ unique => last.resp.status = 409
           /\ foreign /\ ~unique => last.resp.status = 400
           /\ ~unique /\ ~foreign => last.resp.status = 500
           /\ ~last.resp.success
           /\ rows = last.before

\* a message with both phrases, thrown by the write, is a conflict
C9_Witness ==
    /\ Returned("POST") /\ HasThrown /\ last.touched = 2
    /\ last.thrown[1].message = MsgBoth
    /\ last.resp.status = 409

\* C10: a signed-in POST whose body is not valid JSON returns 400 with
\* success = false, without running validation or touching the store.
C10_MalformedJsonIs400 ==
    (Returned("POST") /\ last.user \in Users /\ last.body.kind = "malformed")
    => /\ last.resp.status = 400
       /\ ~last.resp.success
       /\ ~last.validated
       /\ last.touched = 0

C10_Witness ==
    /\ Returned("POST") /\ last.user \in Users /\ last.body.kind = "malformed"
    /\ last.resp.error = "Invalid JSON in request body"
    /\ HasProfile(last.user)

\* C11: every response of GET and POST is a tagged result: success = true
\* exactly when the status is 200 or 201, and then data holds the persisted
\* row; success = false exactly when the status is 400, 401, 404, 409 or 500,
\* and then error is a non-empty message; details appears only on the 400 of
\* a failed validation.
C11_ResponsesAreTagged ==
    (Returned("GET") \/ Returned("POST"))
    => LET resp == last.resp
       IN  /\ resp.status \in {200, 201, 400, 401, 404, 409, 500}
           /\ resp.success <=> resp.status \in {200, 201}
           /\ "success" \in resp.keys
           /\ resp.success =>
                 /\ "data" \in resp.keys /\ "error" \notin resp.keys
                 /\ Len(resp.data) = 1
                 /\ resp.data[1] \in RowsOf(rows, last.user)
           /\ ~resp.success =>
                 /\ "error" \in resp.keys /\ "data" \notin resp.keys
                 /\ resp.error # ""
           /\ "details" \in resp.keys =>
                 /\ resp.status = 400 /\ resp.error = "Validation failed"
                 /\ last.validated /\ ~ValidBody(last.body)

\* a store error answered 400 carries no details
C11_Witness ==
    /\ Returned("POST") /\ HasThrown
    /\ last.resp.status = 400 /\ ~last.resp.success
    /\ last.resp.error = "Invalid user reference"
    /\ "details" \notin last.resp.keys

\* a details list has an entry for the field
Names(details, field) ==
    \E i \in 1..Len(details), m \in {"Required", "Please enter a valid email address",
                                     "Email is required",
                                     "Email must be less than 255 characters"} :
        details[i] = field \o ": " \o m

\* C12: a signed-in POST whose payload has email = "not-an-email" returns 400
\* with a details entry naming the email field, whatever the other fields are,
\* and issues no statement on the store.
C12_NotAnEmailIs400 ==
    (/\ Returned("POST") /\ last.user \in Users /\ last.body.kind = "object"
     /\ last.body.fields.email = StrNotAnEmail)
    => /\ last.resp.status = 400
       /\ ~last.resp.success
       /\ "details" \in last.resp.keys
       /\ Names(last.resp.details, "email")
       /\ last.touched = 0

\* the email is the only field at fault
C12_Witness ==
    /\ Returned("POST") /\ last.user \in Users
    /\ last.body.fields.email = StrNotAnEmail
    /\ last.resp.details = <<"email: Please enter a valid email address">>
    /\ last.touched = 0

\* C13: a signed-in POST whose payload has googleReviewUrl = "" returns 400,
\* whatever the other fields are, whether or not the caller has a profile row;
\* the table is left as it was.
C13_EmptyGoogleUrlIs400 ==
    (/\ Returned("POST") /\ last.user \in Users /\ last.body.kind = "object"
     /\ last.body.fields.googleReviewUrl = <<>>)
    => /\ last.resp.status = 400
       /\ ~last.resp.success
       /\ \E i \in 1..Len(last.resp.details) :
             last.resp.details[i] = "googleReviewUrl: Google Review link is required"
       /\ last.touched = 0

\* the update situation: the caller has a row and every other field is valid
C13_Witness ==
    /\ Returned("POST") /\ last.user \in Users /\ HasProfile(last.user)
    /\ last.body.fields.googleReviewUrl = <<>>
    /\ ValidBody([last.body EXCEPT !.fields.googleReviewUrl = StrUrlG])
    /\ last.resp.status = 400

Unset(v) == v \in {Undefined, <<>>}

\* C14: a signed-in POST whose payload is valid and has an empty or absent
\* facebookReviewUrl or yelpReviewUrl succeeds with 201 or 200, and the stored
\* row has that field unset.
C14_EmptyOptionalUrlSucceeds ==
    (/\ Returned("POST") /\ last.user \in Users /\ ValidBody(last.body) /\ ~HasThrown
     /\ \/ Unset(last.body.fields.facebookReviewUrl)
        \/ Unset(last.body.fields.yelpReviewUrl))
    => /\ last.resp.status \in {200, 201}
       /\ last.resp.success
       /\ last.resp.status = 201 <=> RowsOf(last.before, last.user) = {}
       /\ Len(last.resp.data) = 1
       /\ last.resp.data[1] \in rows
       /\ \A row \in RowsOf(rows, last.user) :
             /\ Unset(last.body.fields.facebookReviewUrl) => row.facebookReviewUrl = Null
             /\ Unset(last.body.fields.yelpReviewUrl) => row.yelpReviewUrl = Null

\* an update with facebookReviewUrl = "" and yelpReviewUrl absent clears both
C14_Witness ==
    /\ Returned("POST") /\ last.resp.status = 200
    /\ last.body.fields.facebookReviewUrl = <<>>
    /\ last.body.fields.yelpReviewUrl = Undefined
    /\ \E old \in RowsOf(last.before, last.user) :
          old.facebookReviewUrl = StrUrlF /\ old.yelpReviewUrl = StrUrlY
    /\ \A row \in RowsOf(rows, last.user) :
          row.facebookReviewUrl = Null /\ row.yelpReviewUrl = Null

\* C18: when the POST requests are strictly sequential and the only writers,
\* the insert branch is taken only if the caller has no row and the update
\* branch only if the caller has one, so a user's number of rows goes from 0 to
\* 1 on the first success and stays 1.
C18_SequentialPostsKeepOneRow ==
    /\ \A u \in Users : Cardinality(RowsOf(rows, u)) <= 1
    /\ \A u \in Users : u \in hist.submitted <=> Cardinality(RowsOf(rows, u)) = 1
    /\ (Returned("POST") /\ last.touched = 2 /\ ~HasThrown) =>
          LET had == Cardinality(RowsOf(last.before, last.user))
              has == Cardinality(RowsOf(rows, last.user))
          IN  /\ last.isUpdate <=> had = 1
              /\ ~last.isUpdate <=> had = 0
              /\ has = 1
              /\ last.resp.status = (IF had = 0 THEN 201 ELSE 200)
    /\ (Returned("POST") /\ HasThrown) => rows = last.before

\* the second success of a user is an update of the one row
C18_Witness ==
    /\ Returned("POST") /\ last.touched = 2 /\ last.isUpdate /\ ~HasThrown
    /\ Cardinality(RowsOf(last.before, last.user)) = 1
    /\ Cardinality(RowsOf(rows, last.user)) = 1
    /\ RowsOf(rows, last.user) # RowsOf(last.before, last.user)

\* C19: the update branch of POST and updateBusinessProfile keep the id, the
\* userId and the createdAt of the caller's row, set its updatedAt to the time
\* the request read, and leave every other row as it was.
C19_UpdateKeepsIdentity ==
    (/\ Returned("POST") \/ Returned("update")
     /\ last.isUpdate /\ last.touched = 2 /\ ~HasThrown)
    => /\ Cardinality(rows) = Cardinality(last.before)
       /\ RowsOf(last.before, last.user) # {}
       /\ \A old \in last.before :
             \E row \in rows :
                /\ row.id = old.id
                /\ row.userId = old.userId
                /\ row.createdAt = old.createdAt
                /\ IF old.userId = last.user
                   THEN row.updatedAt = last.stamp /\ CarriesSubmission(row, last.body.fields)
                   ELSE row = old

\* updateBusinessProfile rewrites a row created earlier
C19_Witness ==
    /\ Returned("update") /\ last.isUpdate /\ last.touched = 2 /\ ~HasThrown
    /\ \E old \in RowsOf(last.before, last.user), row \in RowsOf(rows, last.user) :
          /\ row.id = old.id /\ row.createdAt = 0 /\ old.updatedAt = 0 /\ row.updatedAt = 1
          /\ row.businessName # old.businessName

\* the server accepted the submission that returned in this step
Accepted(call) == call.pc = "done" /\ call.op = "POST" /\ call.resp.status \in {200, 201}

\* C15: the wizard moves from step 1 to step 2 only by Next with businessName,
\* phone and email valid, from step 2 to step 3 only by a submission the server
\* accepted or by Skip, and never from step 1 straight to step 3.
C15_WizardStepsInOrder ==
    [][(page.kind = "wizard" /\ page'.kind = "wizard") =>
          /\ (page.currentStep = 1 /\ page'.currentStep = 2) =>
                page'.event = "next" /\ BasicInfoValid(page.form)
          /\ (page.currentStep = 2 /\ page'.currentStep = 3) =>
                page'.event = "skip" \/ Accepted(last')
          /\ page.currentStep = 1 => page'.currentStep # 3]_vars

\* posts sent by the page and not yet answered
PostsInFlight ==
    PostsOn(page.wire) + Cardinality({r \in Reqs : req[r].op = "POST" /\ req[r].pc # "idle"})

\* C16: nothing is retried: the page sends a POST only in the step that handles
\* a submit event of the user, and one per event; a failure response or a
\* network error sends nothing.
C16_NoAutomaticRetry ==
    [][/\ PostsOn(page'.wire) > PostsOn(page.wire) =>
             /\ page'.event = "submit"
             /\ PostsOn(page'.wire) = PostsOn(page.wire) + 1
       /\ (page'.event = "submit" /\ FormValid(page.form) /\ ~page.shown.isSubmitting) =>
             PostsOn(page'.wire) = PostsOn(page.wire) + 1
       /\ page'.toast \in {"Error", "Validation Error", "Network Error"} =>
             PostsOn(page'.wire) <= PostsOn(page.wire)]_vars

\* a POST answered 500 leaves the form enabled again and nothing on the wire
C16_Witness ==
    /\ Returned("POST") /\ last.resp.status = 500
    /\ page.toast = "Error" /\ ~page.isSubmitting
    /\ PostsInFlight = 0

\* C17: when the initial GET of the settings page is answered 404 the page
\* redirects to the onboarding flow, keeps its profile state empty, has sent no
\* POST and ends its loading state.
C17_NotFoundRedirectsToOnboarding ==
    (Returned("GET") /\ last.resp.status = 404 /\ page.kind = "settings")
    => /\ page.route = "/onboarding"
       /\ page.profile = <<>>
       /\ ~page.isLoading
       /\ PostsInFlight = 0 /\ hist.submits = 0
       /\ page.toast = "No Business Profile"

C17_Witness ==
    /\ Returned("GET") /\ last.resp.status = 404 /\ page.kind = "settings"
    /\ page.user \in Users /\ ~HasProfile(page.user)
    /\ page.route = "/onboarding" /\ ~page.isLoading

\* C20: a wizard page has at most one POST in flight at any time, also when two
\* submit events arrive before the page is rendered again.
C20_OnePostInFlight == page.kind = "wizard" => PostsInFlight <= 1

\* the rows a call has read or written and handed back
Handed(call) == {call.resp.data[i] : i \in 1..Len(call.resp.data)}

\* C28: GET, POST, createBusinessProfile and updateBusinessProfile executed for
\* a user never create, change or return a row of another user: the rows of a
\* user change only in the step of a call of that user, a row that is created
\* carries the caller's id, and every row a call hands back belongs to its
\* caller.
C28_CallsTouchOnlyTheCallersRows ==
    [][/\ \A u \in Users :
             RowsOf(rows', u) # RowsOf(rows, u) => last'.pc = "done" /\ last'.user = u
       /\ last'.pc = "done" => \A row \in Handed(last') : row.userId = last'.user
       /\ \A row \in rows' \ rows : row.userId = last'.user]_vars

\* a call of one user has written while another user has a row
C28_Witness ==
    /\ last.pc = "done" /\ last.op \in {"POST", "create", "update"} /\ ~HasThrown
    /\ rows # last.before
    /\ \E other \in Users \ {last.user} :
          RowsOf(last.before, other) # {} /\ RowsOf(rows, other) = RowsOf(last.before, other)
    /\ \A row \in Handed(last) : row.userId = last.user

\* C29: updateBusinessProfile never creates a row: when its existence check
\* finds no profile of the caller it returns the error 'Business profile not
\* found.' and leaves the table as it was; only when a profile exists does it
\* overwrite the fields of the caller's row.
C29_UpdateNeverCreates ==
    Returned("update")
    => /\ {row.id : row \in rows} = {row.id : row \in last.before}
       /\ (RowsOf(last.before, last.user) = {} /\ ~HasThrown) =>
             /\ last.resp.error = "Business profile not found."
             /\ ~last.resp.success
             /\ rows = last.before
       /\ rows # last.before =>
             /\ RowsOf(last.before, last.user) # {}
             /\ last.resp.success
             /\ \A row \in RowsOf(rows, last.user) : CarriesSubmission(row, last.body.fields)
             /\ rows \ RowsOf(rows, last.user) = last.before \ RowsOf(last.before, last.user)

\* the caller has no profile while another user has one
C29_Witness ==
    /\ Returned("update") /\ ~HasThrown
    /\ RowsOf(last.before, last.user) = {} /\ last.before # {}
    /\ last.resp.error = "Business profile not found."
    /\ rows = last.before

\* the parts of a phone value as the pattern lists them: s splits into an
\* optional "+", an optional "(", three digits, an optional ")", an optional
\* separator, three digits, an optional separator and four to six digits
PhoneDescribed(s) ==
    \E plus \in 0..1, open \in 0..1, close \in 0..1, sep1 \in 0..1, sep2 \in 0..1, n \in 4..6 :
        LET area == plus + open
            mid == area + 3 + close + sep1
            tail == mid + 3 + sep2
        IN  /\ Len(s) = tail + n
            /\ plus = 1 => s[1] = "+"
            /\ open = 1 => s[plus + 1] = "("
            /\ \A i \in 1..3 : s[area + i] \in Digits
            /\ close = 1 => s[area + 4] = ")"
            /\ sep1 = 1 => s[mid] \in {"-", "."} \cup Whitespace
            /\ \A i \in 1..3 : s[mid + i] \in Digits
            /\ sep2 = 1 => s[tail] \in {"-", "."} \cup Whitespace
            /\ \A i \in 1..n : s[tail + i] \in Digits

\* the details of a failed validation reject the phone
RejectsPhone(details) ==
    \E i \in 1..Len(details) :
        details[i] \in {"phone: Phone number is required",
                        "phone: Please enter a valid phone number"}

\* C24: a phone value is accepted by validation exactly when it is non-empty
\* and consists of an optional leading '+', an optional '(', three digits, an
\* optional ')', an optional separator ('-', whitespace or '.'), three digits,
\* an optional separator and four to six digits, with nothing before or after.
C24_PhoneAcceptedIffDescribed ==
    /\ (Returned("POST") /\ last.validated /\ last.body.kind = "object"
        /\ IsString(last.body.fields.phone))
       => (~RejectsPhone(last.resp.details)
           <=> Len(last.body.fields.phone) >= 1 /\ PhoneDescribed(last.body.fields.phone))
    /\ \A r \in Reqs :
          (req[r].op = "POST" /\ req[r].pc \in {"select", "write"})
          => Len(req[r].body.fields.phone) >= 1 /\ PhoneDescribed(req[r].body.fields.phone)

\* a value with every optional part, a tab as separator and six final digits
\* is stored
C24_Witness ==
    /\ Returned("POST") /\ last.resp.status = 201
    /\ last.body.fields.phone =
          <<"+", "(", "5", "5", "5", ")", "\t", "1", "2", "3", ".", "4", "4", "4", "4", "4", "4">>
    /\ \E row \in rows : row.phone = last.body.fields.phone

FitsColumns(v) ==
    /\ Len(v.businessName) <= BusinessNameColumnLength
    /\ Len(v.email) <= EmailColumnLength
    /\ Len(v.phone) <= PhoneColumnLength

\* C30: every payload accepted by onboardingSchema fits the length limits of
\* the columns it is written to: businessName at most 255 characters, email at
\* most 255 and phone at most 20, so every row written by a validated request
\* is within the limits.
C30_AcceptedPayloadFitsColumns ==
    /\ \A row \in rows : FitsColumns(row)
    /\ \A r \in Reqs :
          (req[r].op = "POST" /\ req[r].pc \in {"select", "write"})
          => FitsColumns(req[r].body.fields)
    /\ (Returned("POST") /\ last.validated /\ last.body.kind = "object"
        /\ last.resp.status # 400) => FitsColumns(last.body.fields)

\* a row whose name and email are as long as their columns and whose phone is
\* the longest the pattern matches
C30_Witness ==
    /\ Returned("POST") /\ last.resp.status = 201
    /\ \E row \in rows :
          /\ Len(row.businessName) = BusinessNameColumnLength
          /\ Len(row.email) = EmailColumnLength
          /\ Len(row.phone) = 17

\* C25: whenever the onboarding wizard shows step 3, the success step, a
\* business-profile row of the page's user exists in the table.
C25_SuccessStepHasProfile ==
    (IsWizard(page) /\ page.shown.currentStep = 3) => HasProfile(page.user)

C21_DraftStaysRemoved ==
    [][(page.kind = "wizard" /\ page'.kind = "wizard") =>
          /\ Accepted(last') => page'.draft = <<>>
          /\ (page.currentStep = 3 /\ page.draft = <<>>) => page'.draft = <<>>]_vars

\* C22: after the settings page's initial GET has succeeded and its deferred
\* reset has run, every form field has the fetched profile's value (a null URL
\* as the empty string) and the form is not dirty, so Save and Cancel are
\* disabled.
C22_LoadedFormShowsProfile ==
    [][(page.kind = "settings" /\ page'.kind = "settings"
        /\ page.resetTimer /\ ~page'.resetTimer) =>
          /\ page'.profile # <<>>
          /\ page'.form = FormOf(page'.profile[1])
          /\ ~page'.isDirty
          /\ ~page'.hasUnsavedChanges]_vars

PostCompletes ==
    \/ last'.pc = "done" /\ last'.op \in {"POST", "create"}
    \/ PostsOn(page'.wire) < PostsOn(page.wire) /\ last' = IdleReq /\ req' = req

\* C26: every submission started in the wizard or in the settings form sets
\* isSubmitting back to false when its request completes, on the success path,
\* the failure paths and the path of a rejected fetch, and, every request being
\* answered eventually, a page that is submitting is eventually not submitting
\* (or has been left).
C26_SubmittingEnds ==
    /\ [][(PostCompletes /\ page'.kind \in {"wizard", "actionWizard", "settings"})
           => ~page'.isSubmitting]_vars
    /\ (Mounted /\ page.isSubmitting) ~> (~Mounted \/ ~page.isSubmitting)

\* the settings form is enabled again after a save that the store failed
C26_Witness ==
    /\ Returned("POST") /\ HasThrown /\ last.resp.status \in {409, 500}
    /\ page.kind = "settings" /\ ~page.isSubmitting /\ page.toast = "Error"
    /\ page.form = last.body.fields

====
